---- MODULE Spec2Model ----
(***************************************************************************)
(* binder_ndk_sys/src/types_workaround.h and binder_ndk_sys/src/wrapper.h  *)
(* as the state machine a C/C++ front end runs when it processes a         *)
(* translation unit that includes them.                                    *)
(*                                                                         *)
(* State: the set of defined macros, the typedef declarations seen so far  *)
(* for size_t, ssize_t, uint32_t and int32_t (in order, each tagged with   *)
(* who declared it), the diagnostics raised, and the position inside the   *)
(* header being processed.  The host's standard headers and the vendor     *)
(* header BinderBindings.hpp are not part of the repository: what they     *)
(* define and which guard macros they use are inputs, chosen in Init.      *)
(***************************************************************************)
EXTENDS Naturals, Sequences, FiniteSets

VARIABLES env, macros, defs, errors, file, pc, nIncl,
          shimRuns, shimEntry, wrapRuns, log, vendorParses

vars == <<env, macros, defs, errors, file, pc, nIncl,
          shimRuns, shimEntry, wrapRuns, log, vendorParses>>

\* Number of top-level #include directives of the translation unit.
MaxIncludes == 3

TypeNames == {"size_t", "ssize_t", "uint32_t", "int32_t"}

StdHeaders == {"stddef.h", "stdbool.h", "stdint.h", "sys/types.h"}

VendorHeader == "BinderBindings.hpp"

(***************************************************************************)
(* The C data model.  __LP64__ is defined exactly when long and pointers   *)
(* are 64 bits wide; int is 32 bits, long long 64 bits in both models.     *)
(***************************************************************************)
CTypes == {"unsigned int", "int", "unsigned long", "long",
           "unsigned long long", "long long"}

Width(ty, lp) ==
    CASE ty \in {"unsigned int", "int"} -> 32
      [] ty \in {"unsigned long", "long"} -> IF lp THEN 64 ELSE 32
      [] OTHER -> 64

IsSigned(ty) == ty \in {"int", "long", "long long"}

SignedOf(ty) ==
    CASE ty = "unsigned int" -> "int"
      [] ty = "unsigned long" -> "long"
      [] ty = "unsigned long long" -> "long long"
      [] OTHER -> ty

PointerWidth(lp) == IF lp THEN 64 ELSE 32

(***************************************************************************)
(* typedef declarations.  A name may be declared again with the same type  *)
(* (C11 6.7p3, C++ [dcl.typedef]); a declaration with another type is a    *)
(* redefinition error.  The front end reports the error and goes on.       *)
(***************************************************************************)
NoDefs == [n \in TypeNames |-> <<>>]

Typedef(d, name, ty, by) ==
    [d EXCEPT ![name] = Append(@, [ty |-> ty, by |-> by])]

\* Mutant: a later declaration silently overrides, whatever its type.
ConflictsNever(d, name, ty) == FALSE

Conflicts(d, name, ty) ==
    \E i \in 1..Len(d[name]) : d[name][i].ty # ty

RECURSIVE DeclareAll(_, _, _)
DeclareAll(d, tds, by) ==
    IF tds = <<>> THEN d
    ELSE DeclareAll(Typedef(d, Head(tds).name, Head(tds).ty, by), Tail(tds), by)

DeclareErrors(d, tds) ==
    IF \E k \in 1..Len(tds) : Conflicts(d, tds[k].name, tds[k].ty)
    THEN {"redefinition"} ELSE {}

(***************************************************************************)
(* types_workaround.h                                                      *)
(***************************************************************************)
\* The macros whose definedness the file tests.
ShimGuardSymbols == {"TYPES_WORKAROUND_H", "_SIZE_T_DEFINED", "_STDINT_H"}

\* line 1: #ifndef TYPES_WORKAROUND_H
ShimSkipsFile(m) == "TYPES_WORKAROUND_H" \in m

\* Mutant: the #define of line 2 is forgotten.
ShimOuterDefinesNothing == {}

\* line 2: #define TYPES_WORKAROUND_H
ShimOuterDefines == {"TYPES_WORKAROUND_H"}

\* Mutant: the #ifdef __LP64__ branch is dropped, the #else branch always taken.
ShimSizeTypesNoLP64(lp) ==
    << [name |-> "size_t", ty |-> "unsigned int"],
       [name |-> "ssize_t", ty |-> "int"] >>

\* lines 9-15: #ifdef __LP64__ ... #else ... #endif
ShimSizeTypes(lp) ==
    IF lp
    THEN << [name |-> "size_t", ty |-> "unsigned long"],
            [name |-> "ssize_t", ty |-> "long"] >>
    ELSE << [name |-> "size_t", ty |-> "unsigned int"],
            [name |-> "ssize_t", ty |-> "int"] >>

\* lines 7-16: the typedefs the #ifndef _SIZE_T_DEFINED block emits
ShimSizeEmits(m, lp) ==
    IF "_SIZE_T_DEFINED" \in m THEN <<>> ELSE ShimSizeTypes(lp)

\* line 8: #define _SIZE_T_DEFINED
ShimSizeDefines(m) ==
    IF "_SIZE_T_DEFINED" \in m THEN {} ELSE {"_SIZE_T_DEFINED"}

\* Mutant: the fixed-width names are aliased to long like the LP64 size types.
ShimStdintTypesLong ==
    << [name |-> "uint32_t", ty |-> "unsigned long"],
       [name |-> "int32_t", ty |-> "long"] >>

\* lines 19-20
ShimStdintTypes ==
    << [name |-> "uint32_t", ty |-> "unsigned int"],
       [name |-> "int32_t", ty |-> "int"] >>

\* lines 18-21: the typedefs the #ifndef _STDINT_H block emits; the block
\* defines no macro.
ShimStdintEmits(m) ==
    IF "_STDINT_H" \in m THEN <<>> ELSE ShimStdintTypes

ShimStdintDefines(m) == {}

(***************************************************************************)
(* wrapper.h: five #include directives, no include guard of its own.       *)
(***************************************************************************)
\* Mutant: the vendor header is included before the standard headers.
WrapperIncludesVendorFirst ==
    <<"BinderBindings.hpp", "stddef.h", "stdbool.h", "stdint.h", "sys/types.h">>

WrapperIncludes ==
    <<"stddef.h", "stdbool.h", "stdint.h", "sys/types.h", "BinderBindings.hpp">>

(***************************************************************************)
(* The host's standard headers (inputs).  env.hdrs are the headers that    *)
(* provide their definitions; the others contribute nothing.  Each header  *)
(* has its own include guard, so a second inclusion has no effect (C11     *)
(* 7.1.2p4).  stddef.h and sys/types.h share the guard env.sizeMacro for   *)
(* size_t; env.stdintMacro is the include guard of stdint.h.               *)
(***************************************************************************)
SizeMacros == {"_SIZE_T_DEFINED", "_SIZE_T"}

StdintMacros == {"_STDINT_H", "_STDINT"}

HostSizeTypes == {"unsigned int", "unsigned long", "unsigned long long"}

HostIncludeGuard(h) ==
    CASE h = "stddef.h" -> "_STDDEF_H"
      [] h = "stdbool.h" -> "_STDBOOL_H"
      [] h = "stdint.h" -> env.stdintMacro
      [] h = "sys/types.h" -> "_SYS_TYPES_H"

HostActive(h, m) == h \in env.hdrs /\ HostIncludeGuard(h) \notin m

HostSizeT(m) ==
    IF env.sizeMacro \in m THEN <<>>
    ELSE << [name |-> "size_t", ty |-> env.hostSize] >>

HostTypes(h, m) ==
    CASE h = "stddef.h" -> HostSizeT(m)
      [] h = "sys/types.h" ->
            HostSizeT(m) \o << [name |-> "ssize_t", ty |-> SignedOf(env.hostSize)] >>
      [] h = "stdint.h" ->
            << [name |-> "uint32_t", ty |-> "unsigned int"],
               [name |-> "int32_t", ty |-> "int"] >>
      [] OTHER -> <<>>

HostEmits(h, m) == IF HostActive(h, m) THEN HostTypes(h, m) ELSE <<>>

HostDefines(h, m) ==
    IF HostActive(h, m)
    THEN {HostIncludeGuard(h)}
         \cup (IF h \in {"stddef.h", "sys/types.h"} THEN {env.sizeMacro} ELSE {})
    ELSE {}

(***************************************************************************)
(* The vendor header (input).  Its declarations use the four type names;   *)
(* a name still undeclared when it is parsed is a missing-definition       *)
(* error.  Whether the header may be parsed twice is env.vendorIdempotent. *)
(***************************************************************************)
VendorNeeds == TypeNames

VendorErrors(d, parses) ==
    (IF \E n \in VendorNeeds : Len(d[n]) = 0 THEN {"missing"} ELSE {})
    \cup (IF parses > 0 /\ ~env.vendorIdempotent
          THEN {"vendor_redefinition"} ELSE {})

(***************************************************************************)
(* Initial state: an empty translation unit on some target and host.       *)
(***************************************************************************)
Envs ==
    [lp64 : BOOLEAN,
     hdrs : SUBSET StdHeaders,
     sizeMacro : SizeMacros,
     stdintMacro : StdintMacros,
     hostSize : HostSizeTypes,
     vendorIdempotent : BOOLEAN]

Init ==
    /\ env \in Envs
    /\ macros = IF env.lp64 THEN {"__LP64__"} ELSE {}
    /\ defs = NoDefs
    /\ errors = {}
    /\ file = "tu"
    /\ pc = 0
    /\ nIncl = 0
    /\ shimRuns = 0
    /\ shimEntry = {}
    /\ wrapRuns = 0
    /\ log = <<>>
    /\ vendorParses = 0

(***************************************************************************)
(* Top-level directives of the translation unit.                           *)
(***************************************************************************)
\* #include "types_workaround.h"
IncludeShim ==
    /\ file = "tu"
    /\ nIncl < MaxIncludes
    /\ nIncl' = nIncl + 1
    /\ file' = "shim"
    /\ pc' = 1
    /\ shimRuns' = shimRuns + 1
    /\ shimEntry' = macros \cap ShimGuardSymbols
    /\ UNCHANGED <<env, macros, defs, errors, wrapRuns, log, vendorParses>>

\* #include "wrapper.h"
IncludeWrapper ==
    /\ file = "tu"
    /\ nIncl < MaxIncludes
    /\ nIncl' = nIncl + 1
    /\ file' = "wrapper"
    /\ pc' = 1
    /\ wrapRuns' = wrapRuns + 1
    /\ log' = <<>>
    /\ UNCHANGED <<env, macros, defs, errors, shimRuns, shimEntry, vendorParses>>

\* #include <h> for a standard header h, directly from the translation unit
IncludeStd(h) ==
    /\ file = "tu"
    /\ nIncl < MaxIncludes
    /\ nIncl' = nIncl + 1
    /\ macros' = macros \cup HostDefines(h, macros)
    /\ defs' = DeclareAll(defs, HostEmits(h, macros), "host")
    /\ errors' = errors \cup DeclareErrors(defs, HostEmits(h, macros))
    /\ UNCHANGED <<env, file, pc, shimRuns, shimEntry, wrapRuns, log, vendorParses>>

(***************************************************************************)
(* types_workaround.h, block by block.                                     *)
(***************************************************************************)
\* lines 1-2 (and 23 when the file is skipped)
ShimOuterGuard ==
    /\ file = "shim"
    /\ pc = 1
    /\ IF ShimSkipsFile(macros)
       THEN /\ file' = "tu"
            /\ pc' = 0
            /\ UNCHANGED macros
       ELSE /\ macros' = macros \cup ShimOuterDefines
            /\ pc' = 7
            /\ UNCHANGED file
    /\ UNCHANGED <<env, defs, errors, nIncl, shimRuns, shimEntry, wrapRuns, log,
                   vendorParses>>

\* lines 7-16
ShimSizeBlock ==
    /\ file = "shim"
    /\ pc = 7
    /\ macros' = macros \cup ShimSizeDefines(macros)
    /\ defs' = DeclareAll(defs, ShimSizeEmits(macros, "__LP64__" \in macros), "shim")
    /\ errors' = errors
                 \cup DeclareErrors(defs, ShimSizeEmits(macros, "__LP64__" \in macros))
    /\ pc' = 18
    /\ UNCHANGED <<env, file, nIncl, shimRuns, shimEntry, wrapRuns, log, vendorParses>>

\* lines 18-23
ShimStdintBlock ==
    /\ file = "shim"
    /\ pc = 18
    /\ macros' = macros \cup ShimStdintDefines(macros)
    /\ defs' = DeclareAll(defs, ShimStdintEmits(macros), "shim")
    /\ errors' = errors \cup DeclareErrors(defs, ShimStdintEmits(macros))
    /\ file' = "tu"
    /\ pc' = 0
    /\ UNCHANGED <<env, nIncl, shimRuns, shimEntry, wrapRuns, log, vendorParses>>

(***************************************************************************)
(* wrapper.h, directive by directive; pc indexes WrapperIncludes.          *)
(***************************************************************************)
\* lines 6-9
WrapperStdInclude ==
    /\ file = "wrapper"
    /\ pc \in 1..Len(WrapperIncludes)
    /\ WrapperIncludes[pc] \in StdHeaders
    /\ LET h == WrapperIncludes[pc] IN
         /\ macros' = macros \cup HostDefines(h, macros)
         /\ defs' = DeclareAll(defs, HostEmits(h, macros), "host")
         /\ errors' = errors \cup DeclareErrors(defs, HostEmits(h, macros))
         /\ log' = Append(log, h)
    /\ IF pc = Len(WrapperIncludes)
       THEN file' = "tu" /\ pc' = 0
       ELSE file' = file /\ pc' = pc + 1
    /\ UNCHANGED <<env, nIncl, shimRuns, shimEntry, wrapRuns, vendorParses>>

\* line 12
WrapperVendorInclude ==
    /\ file = "wrapper"
    /\ pc \in 1..Len(WrapperIncludes)
    /\ WrapperIncludes[pc] = VendorHeader
    /\ errors' = errors \cup VendorErrors(defs, vendorParses)
    /\ vendorParses' = vendorParses + 1
    /\ log' = Append(log, VendorHeader)
    /\ IF pc = Len(WrapperIncludes)
       THEN file' = "tu" /\ pc' = 0
       ELSE file' = file /\ pc' = pc + 1
    /\ UNCHANGED <<env, macros, defs, nIncl, shimRuns, shimEntry, wrapRuns>>

Next ==
    \/ IncludeShim
    \/ IncludeWrapper
    \/ \E h \in StdHeaders : IncludeStd(h)
    \/ ShimOuterGuard
    \/ ShimSizeBlock
    \/ ShimStdintBlock
    \/ WrapperStdInclude
    \/ WrapperVendorInclude

Spec == Init /\ [][Next]_vars

(***************************************************************************)
(* Properties.                                                             *)
(***************************************************************************)
ByOf(n, who) == {i \in 1..Len(defs[n]) : defs[n][i].by = who}

ShimCount(n) == Cardinality(ByOf(n, "shim"))

HostCount(n) == Cardinality(ByOf(n, "host"))

\* types_workaround.h has been processed to its end, and when that
\* processing began none of the macros it tests was defined.
ShimRanFromCleanGuards ==
    shimRuns >= 1 /\ shimEntry = {} /\ file # "shim"

DuplicateErrors == {"redefinition", "vendor_redefinition"}

\* C2: a second inclusion of wrapper.h in the same translation unit raises no
\* duplicate-definition error and leaves every type name defined as it was.
C2_WrapperTwiceNoDuplicate ==
    [][(file = "wrapper" /\ wrapRuns >= 2) =>
          /\ defs' = defs
          /\ (errors' \cap DuplicateErrors) \subseteq errors]_vars

\* The host's headers use exactly the guard macros types_workaround.h tests.
HostUsesShimMacros ==
    env.sizeMacro = "_SIZE_T_DEFINED" /\ env.stdintMacro = "_STDINT_H"

\* C3: when wrapper.h has been compiled on a host whose four standard headers
\* all provide their types, no shim typedef is emitted, no type name is
\* declared twice and there is no redefinition error.  Stated for the hosts
\* most favourable to the shim, those that set the macros it tests.
C3_CompleteHostSuppressesShim ==
    (HostUsesShimMacros /\ env.hdrs = StdHeaders /\ wrapRuns >= 1
        /\ file # "wrapper") =>
        /\ \A n \in TypeNames : ShimCount(n) = 0 /\ Len(defs[n]) <= 1
        /\ "redefinition" \notin errors

\* C4: on a host whose standard headers provide no type, every type the
\* vendor header needs is defined when the vendor header is parsed from
\* wrapper.h: no missing-definition error.
C4_LackingHostStillResolves ==
    env.hdrs = {} => "missing" \notin errors

\* C5: the shim emits a typedef for a name only if no declaration of that
\* name is already visible, whatever guard macros the earlier declaration set.
C5_ShimOnlyWhenUndefined ==
    \A n \in TypeNames : \A i \in ByOf(n, "shim") : i = 1

\* C6: in every processing of wrapper.h the four standard headers are all
\* included before BinderBindings.hpp is parsed, and a complete processing of
\* wrapper.h consists of exactly these five includes.
C6_StandardHeadersBeforeVendor ==
    /\ \A i \in 1..Len(log) :
          /\ log[i] \in StdHeaders \cup {VendorHeader}
          /\ log[i] = VendorHeader =>
                StdHeaders \subseteq {log[j] : j \in 1..(i - 1)}
    /\ vendorParses > 0 => wrapRuns > 0
    /\ (wrapRuns >= 1 /\ file # "wrapper") =>
          /\ Len(log) = 5
          /\ {log[i] : i \in 1..Len(log)} = StdHeaders \cup {VendorHeader}

C6_Witness ==
    /\ wrapRuns = 1
    /\ file = "tu"
    /\ vendorParses = 1
    /\ Len(log) = 5
    /\ log[5] = VendorHeader
    /\ Len(defs["uint32_t"]) = 1

\* C7: across the translation unit no type name is declared a second time,
\* in whatever order the shim and the host's standard headers (any subset of
\* them present) are included.  Stated for the hosts most favourable to the
\* shim, those that set the macros it tests.
C7_EachNameDefinedOnce ==
    HostUsesShimMacros => \A n \in TypeNames : Len(defs[n]) <= 1

\* The shim and a host header both declare n, with types of different width
\* or signedness.
Mismatch(n) ==
    \E i \in ByOf(n, "shim") : \E j \in ByOf(n, "host") :
        \/ Width(defs[n][i].ty, env.lp64) # Width(defs[n][j].ty, env.lp64)
        \/ IsSigned(defs[n][i].ty) # IsSigned(defs[n][j].ty)

C9_ShimReinclusionNoEffect ==
    [][(file = "shim" /\ shimRuns >= 2) =>
          (defs' = defs /\ macros' = macros /\ errors' = errors)]_vars

C9_Witness ==
    /\ shimRuns = 2
    /\ file = "tu"
    /\ "_STDINT_H" \notin macros
    /\ ShimCount("uint32_t") = 1
    /\ ShimCount("int32_t") = 1

\* C10: the shim emits size_t and ssize_t together, size_t unsigned and
\* ssize_t signed, both of pointer width; it emits uint32_t and int32_t
\* together, unsigned and signed, both 32 bits wide on either target.
C10_ShimEmitsConsistentPairs ==
    /\ ShimCount("size_t") = ShimCount("ssize_t")
    /\ ShimCount("uint32_t") = ShimCount("int32_t")
    /\ \A i \in ByOf("size_t", "shim") :
          /\ ~IsSigned(defs["size_t"][i].ty)
          /\ Width(defs["size_t"][i].ty, env.lp64) = PointerWidth(env.lp64)
    /\ \A i \in ByOf("ssize_t", "shim") :
          /\ IsSigned(defs["ssize_t"][i].ty)
          /\ Width(defs["ssize_t"][i].ty, env.lp64) = PointerWidth(env.lp64)
    /\ \A i \in ByOf("uint32_t", "shim") :
          /\ ~IsSigned(defs["uint32_t"][i].ty)
          /\ Width(defs["uint32_t"][i].ty, env.lp64) = 32
    /\ \A i \in ByOf("int32_t", "shim") :
          /\ IsSigned(defs["int32_t"][i].ty)
          /\ Width(defs["int32_t"][i].ty, env.lp64) = 32

C10_Witness ==
    /\ file = "tu"
    /\ shimRuns = 1
    /\ env.lp64
    /\ ShimCount("size_t") = 1
    /\ ShimCount("ssize_t") = 1
    /\ ShimCount("uint32_t") = 0
    /\ ShimCount("int32_t") = 0

====
